---- MODULE Spec2Model ----
(***************************************************************************)
(* S3TextFileDirectoryLoader (s3_text_directory_loader.py): construction,  *)
(* load(), _load_batch() and the worker threads of the ThreadPoolExecutor  *)
(* that run _load_single_file().                                           *)
(***************************************************************************)
EXTENDS Integers, Sequences, FiniteSets, TLC

\* ---------------------------------------------------------------- bounds
MaxObjects == 4     \* objects listed under the prefix
MaxBatch == 3       \* largest batch_size passed to the constructor
MaxDocs == 2        \* documents one object's fetch can return

\* ------------------------------------------------------ program constants
WorkerCap == 100    \* the ceiling on the worker threads

\* ---------------------------------------------------------------- values
\* Object names by listing position (S3 lists keys in ascending order); some
\* have the separator inside.
Names == << <<"a">>, <<"b", "/", "c">>, <<"d">>, <<"e", "/", "f">>, <<"g">>,
           <<"h">> >>

\* The keys an object at listing position i can have: the name, or the name
\* followed by the separator (a directory marker).
KeysAt(i) == { Names[i], Names[i] \o <<"/">> }

Sizes == {0, 5}

ObjectsAt(i) == [key : KeysAt(i), size : Sizes]

RECURSIVE ListingsOfLen(_)
ListingsOfLen(n) ==
    IF n = 0 THEN { <<>> }
    ELSE { Append(l, o) : l \in ListingsOfLen(n - 1), o \in ObjectsAt(n) }

Listings == UNION { ListingsOfLen(n) : n \in 0..MaxObjects }

BatchSizes == (0 - 1)..MaxBatch

NoErr == [kind |-> "none", key |-> <<>>]
CtorErr == [kind |-> "Exception: batch_size must be greater than 0.", key |-> <<>>]
ValueErr == [kind |-> "ValueError", key |-> <<>>]
FetchErr(k) == [kind |-> "fetch", key |-> k]

\* The documents S3TextFileLoader(bucket, key).load() returns when it
\* returns n of them, in their own order.
LoaderDocs(k, n) == [i \in 1..n |-> <<k, i>>]

\* The numbers of documents a fetch is let to return: none, one, several.
DocCounts == {0, 1, MaxDocs}

Min(a, b) == IF a <= b THEN a ELSE b

\* ----------------------------------------------------------------- state
VARIABLES
    pc,          \* position of the caller's thread
    batch_size,  \* the constructor's argument / self.batch_size
    bucket,      \* the remote listing under the prefix: <<[key, size], ...>>
    clients,     \* boto3.resource(...) calls made
    listCalls,   \* bucket.objects.filter(...) enumerations made
    objects,     \* load(): objects
    batches,     \* load(): batches
    bi,          \* load(): index of the batch of the for loop (0 before it)
    si,          \* _load_batch(): tasks submitted so far for the batch
    max_workers, \* load(): max_workers
    pools,       \* ThreadPoolExecutor objects created
    poolOpen,    \* the executor exists and has not finished shutdown
    tasks,       \* work items submitted to an executor, in submission order
    arrival,     \* task indices in the order their futures completed
    calls,       \* _load_batch calls: "active", "returned" or "raised"
    gatherExc,   \* exception set on the gather future of the current call
    pending,     \* exception propagating out of the with block
    all_docs,    \* load(): all_docs
    result,      \* what load() returned
    error,       \* what the constructor or load() raised
    stdout,      \* the lines printed, in order
    remote,      \* what the bucket's objects gave when fetched: <<key, outcome>>
    loads,       \* load() calls made on the loader
    prev         \* how the previous load() call ended

vars == <<pc, batch_size, bucket, clients, listCalls, objects, batches, bi, si,
          max_workers, pools, poolOpen, tasks, arrival, calls, gatherExc,
          pending, all_docs, result, error, stdout, remote, loads, prev>>

\* ------------------------------------------------------- pure operators
\* str.endswith
EndsWith(s, suffix) ==
    /\ Len(s) >= Len(suffix)
    /\ SubSeq(s, Len(s) - Len(suffix) + 1, Len(s)) = suffix

\* faulty variant: the test for a trailing separator is left out
KeepNonEmpty(obj) == obj.size > 0

\* the condition of the list comprehension of line 130
Keep(obj) == obj.size > 0 /\ ~EndsWith(obj.key, <<"/">>)

\* [obj.key for obj in ... if obj.size > 0 and not obj.key.endswith("/")]
FilterKeys(listing) ==
    LET kept == SelectSeq(listing, Keep)
    IN  [i \in 1..Len(kept) |-> kept[i].key]

\* range(start, stop, step) for step /= 0
RECURSIVE PyRange(_, _, _)
PyRange(start, stop, step) ==
    IF (step > 0 /\ start >= stop) \/ (step < 0 /\ start <= stop)
    THEN <<>>
    ELSE <<start>> \o PyRange(start + step, stop, step)

\* s[i:j] for 0 <= i
PySlice(s, i, j) ==
    IF j <= i THEN <<>> ELSE SubSeq(s, i + 1, Min(j, Len(s)))

\* faulty variant: the slice is one key too long, so consecutive batches overlap
PartitionOverlap(objs, size) ==
    LET starts == PyRange(0, Len(objs), size)
    IN  [k \in 1..Len(starts) |->
            PySlice(objs, starts[k], starts[k] + size + 1)]

\* faulty variant: the range stops short, so a last batch of fewer than
\* batch_size keys is left out
PartitionDropTail(objs, size) ==
    LET starts == PyRange(0, Len(objs) - size + 1, size)
    IN  [k \in 1..Len(starts) |-> PySlice(objs, starts[k], starts[k] + size)]

\* [objects[i:i + batch_size] for i in range(0, len(objects), batch_size)]
Partition(objs, size) ==
    LET starts == PyRange(0, Len(objs), size)
    IN  [k \in 1..Len(starts) |-> PySlice(objs, starts[k], starts[k] + size)]

\* faulty variant: max() instead of min()
MaxWorkersMax(size) == IF size >= WorkerCap THEN size ELSE WorkerCap

\* min(self.batch_size, 100)
MaxWorkers(size) == Min(size, WorkerCap)

RECURSIVE Flatten(_)
Flatten(ss) == IF ss = <<>> THEN <<>> ELSE Head(ss) \o Flatten(Tail(ss))

TaskIds == 1..Len(tasks)
TasksOf(b) == { t \in TaskIds : tasks[t].batch = b }
Busy == { t \in TaskIds : tasks[t].st \in {"running", "hung"} }
Queued == { t \in TaskIds : tasks[t].st = "queued" }

\* the task indices of batch b in submission order
SubmitOrder(b) ==
    SelectSeq([t \in 1..Len(tasks) |-> t], LAMBDA t : tasks[t].batch = b)

\* faulty variant: results collected in completion order (as asyncio.as_completed)
GatherResultsByArrival(b) ==
    LET ids == SelectSeq(arrival, LAMBDA t : tasks[t].batch = b)
    IN  [i \in 1..Len(ids) |-> tasks[ids[i]].docs]

\* results = loop.run_until_complete(asyncio.gather(*tasks)): gather returns
\* the results in the order of the awaitables passed to it
GatherResults(b) ==
    LET ids == SubmitOrder(b)
    IN  [i \in 1..Len(ids) |-> tasks[ids[i]].docs]

\* faulty variant: failures are collected instead of raised (return_exceptions=True
\* with the failed children skipped)
GatherAllFinished(b) ==
    /\ Cardinality(TasksOf(b)) = Len(batches[b])
    /\ \A t \in TasksOf(b) : tasks[t].st \in {"ok", "failed"}

\* faulty variant: the wait ends with the first child that completes
GatherFirstCompleted(b) ==
    /\ Cardinality(TasksOf(b)) = Len(batches[b])
    /\ \E t \in TasksOf(b) : tasks[t].st = "ok"
    /\ \A t \in TasksOf(b) : tasks[t].st # "failed"

\* gather's future has a result once every child future has one
GatherDone(b) ==
    /\ Cardinality(TasksOf(b)) = Len(batches[b])
    /\ \A t \in TasksOf(b) : tasks[t].st = "ok"

\* faulty variant: the wait gives up on a child that does not complete
GatherFailedOrStuck ==
    \/ gatherExc # NoErr
    \/ \E t \in TaskIds : tasks[t].st = "hung"

\* gather's future has the exception of the first child seen to fail
GatherFailed == gatherExc # NoErr

\* faulty variant: a later failure replaces the exception already set
OnChildExceptionLast(e) == e

\* faulty variant: the exception of the child is replaced by one of the batch
OnChildExceptionWrapped(e) ==
    IF gatherExc = NoErr
    THEN [kind |-> "Exception: batch failed", key |-> <<>>]
    ELSE gatherExc

\* gather's _done_callback for a child that raised e: the first exception is
\* set on the outer future, later ones are only marked as retrieved
OnChildException(e) == IF gatherExc = NoErr THEN e ELSE gatherExc

\* the outcome of a fetch that raises (a fetch that returns has the number
\* of its documents as outcome)
Raises == 0 - 1

\* The remote prefix does not change: an object fetched before gives what it
\* gave then.
Gives(k, outcome) == \A r \in remote : r[1] = k => r[2] = outcome

\* print(f"loading {self.bucket}/{obj_key}")
Line(k) == <<"loading", k>>

\* faulty variant: nothing is printed
PrintedNothing(t) == stdout

\* stdout after the print of task t
Printed(t) == Append(stdout, Line(tasks[t].key))

NoCall == [pc |-> "none", result |-> <<>>, error |-> NoErr]

\* ------------------------------------------------------------------ Init
Init ==
    /\ pc = "new"
    /\ batch_size \in BatchSizes
    /\ bucket \in Listings
    /\ clients = 0
    /\ listCalls = 0
    /\ objects = <<>>
    /\ batches = <<>>
    /\ bi = 0
    /\ si = 0
    /\ max_workers = 0
    /\ pools = 0
    /\ poolOpen = FALSE
    /\ tasks = <<>>
    /\ arrival = <<>>
    /\ calls = <<>>
    /\ gatherExc = NoErr
    /\ pending = NoErr
    /\ all_docs = <<>>
    /\ result = <<>>
    /\ error = NoErr
    /\ stdout = <<>>
    /\ remote = {}
    /\ loads = 0
    /\ prev = NoCall

\* --------------------------------------------------------------- __init__
\* faulty variant: zero is accepted
InvalidNegative(size) == size < 0

\* if self.batch_size <= 0: raise Exception(...)
Invalid(size) == size <= 0

Construct ==
    /\ pc = "new"
    /\ IF Invalid(batch_size)
       THEN pc' = "ctor_failed" /\ error' = CtorErr
       ELSE pc' = "ready" /\ error' = error
    /\ UNCHANGED <<stdout, remote, loads, prev>>
    /\ UNCHANGED <<batch_size, bucket, clients, listCalls, objects, batches, bi,
                   si, max_workers, pools, poolOpen, tasks, arrival, calls,
                   gatherExc, pending, all_docs, result>>

\* ------------------------------------------------------------------ load
\* s3 = boto3.resource("s3", ...)
Connect ==
    /\ pc = "ready"
    /\ clients' = clients + 1
    /\ loads' = loads + 1
    /\ pc' = "connected"
    /\ UNCHANGED <<stdout, remote, prev>>
    /\ UNCHANGED <<batch_size, bucket, listCalls, objects, batches, bi, si,
                   max_workers, pools, poolOpen, tasks, arrival, calls,
                   gatherExc, pending, all_docs, result, error>>

\* objects = [obj.key for obj in bucket.objects.filter(Prefix=...) if ...]
ListObjects ==
    /\ pc = "connected"
    /\ listCalls' = listCalls + 1
    /\ objects' = FilterKeys(bucket)
    /\ pc' = "listed"
    /\ UNCHANGED <<stdout, remote, loads, prev>>
    /\ UNCHANGED <<batch_size, bucket, clients, batches, bi, si, max_workers,
                   pools, poolOpen, tasks, arrival, calls, gatherExc, pending,
                   all_docs, result, error>>

\* batches = [...]; range() raises ValueError for a step of zero
MakeBatches ==
    /\ pc = "listed"
    /\ IF batch_size = 0
       THEN /\ pc' = "raised"
            /\ error' = ValueErr
            /\ batches' = batches
       ELSE /\ pc' = "partitioned"
            /\ error' = error
            /\ batches' = Partition(objects, batch_size)
    /\ UNCHANGED <<stdout, remote, loads, prev>>
    /\ UNCHANGED <<batch_size, bucket, clients, listCalls, objects, bi, si,
                   max_workers, pools, poolOpen, tasks, arrival, calls,
                   gatherExc, pending, all_docs, result>>

\* faulty variant: the accumulator outlives the call (an attribute of the
\* loader that is never cleared)
KeptDocs == all_docs

\* all_docs = []
NewDocs == <<>>

\* all_docs = []; max_workers = min(...); with ThreadPoolExecutor(...) as
\* executor: the constructor raises ValueError for max_workers <= 0
CreatePool ==
    /\ pc = "partitioned"
    /\ all_docs' = NewDocs
    /\ max_workers' = MaxWorkers(batch_size)
    /\ IF max_workers' <= 0
       THEN /\ pc' = "raised"
            /\ error' = ValueErr
            /\ UNCHANGED <<pools, poolOpen>>
       ELSE /\ pc' = "loop"
            /\ error' = error
            /\ pools' = pools + 1
            /\ poolOpen' = TRUE
    /\ UNCHANGED <<stdout, remote, loads, prev>>
    /\ UNCHANGED <<batch_size, bucket, clients, listCalls, objects, batches, bi,
                   si, tasks, arrival, calls, gatherExc, pending, result>>

\* faulty variant: every batch call gets an executor of its own
BeginBatchOwnPool ==
    /\ pc = "loop"
    /\ bi < Len(batches)
    /\ bi' = bi + 1
    /\ si' = 0
    /\ calls' = Append(calls, "active")
    /\ gatherExc' = NoErr
    /\ pools' = pools + 1
    /\ pc' = "submit"
    /\ UNCHANGED <<stdout, remote, loads, prev>>
    /\ UNCHANGED <<batch_size, bucket, clients, listCalls, objects, batches,
                   max_workers, poolOpen, tasks, arrival, pending,
                   all_docs, result, error>>

\* for batch in batches: docs = self._load_batch(batch, executor)
BeginBatch ==
    /\ pc = "loop"
    /\ bi < Len(batches)
    /\ bi' = bi + 1
    /\ si' = 0
    /\ calls' = Append(calls, "active")
    /\ gatherExc' = NoErr
    /\ pc' = "submit"
    /\ UNCHANGED <<stdout, remote, loads, prev>>
    /\ UNCHANGED <<batch_size, bucket, clients, listCalls, objects, batches,
                   max_workers, pools, poolOpen, tasks, arrival, pending,
                   all_docs, result, error>>

\* the for loop is exhausted: the with block is left without an exception
EndLoop ==
    /\ pc = "loop"
    /\ bi >= Len(batches)
    /\ pending' = NoErr
    /\ pc' = "exit"
    /\ UNCHANGED <<stdout, remote, loads, prev>>
    /\ UNCHANGED <<batch_size, bucket, clients, listCalls, objects, batches, bi,
                   si, max_workers, pools, poolOpen, tasks, arrival, calls,
                   gatherExc, all_docs, result, error>>

\* ----------------------------------------------------------- _load_batch
\* loop.run_in_executor(executor, self._load_single_file, obj_key), once per
\* key of the batch, in the order of the batch
Submit ==
    /\ pc = "submit"
    /\ si < Len(batches[bi])
    /\ tasks' = Append(tasks, [key |-> batches[bi][si + 1], batch |-> bi,
                               pool |-> pools, st |-> "queued",
                               docs |-> <<>>, err |-> NoErr])
    /\ si' = si + 1
    /\ pc' = IF si + 1 = Len(batches[bi]) THEN "gather" ELSE "submit"
    /\ UNCHANGED <<stdout, remote, loads, prev>>
    /\ UNCHANGED <<batch_size, bucket, clients, listCalls, objects, batches, bi,
                   max_workers, pools, poolOpen, arrival, calls, gatherExc,
                   pending, all_docs, result, error>>

\* run_until_complete(gather(...)) returns; the list is flattened;
\* load(): all_docs.extend(docs)
GatherReturn ==
    /\ pc = "gather"
    /\ GatherDone(bi)
    /\ all_docs' = all_docs \o Flatten(GatherResults(bi))
    /\ calls' = [calls EXCEPT ![bi] = "returned"]
    /\ pc' = "loop"
    /\ UNCHANGED <<stdout, remote, loads, prev>>
    /\ UNCHANGED <<batch_size, bucket, clients, listCalls, objects, batches, bi,
                   si, max_workers, pools, poolOpen, tasks, arrival, gatherExc,
                   pending, result, error>>

\* faulty variant: the for loop catches the exception of a batch and goes on
GatherRaiseSwallowed ==
    /\ pc = "gather"
    /\ GatherFailed
    /\ calls' = [calls EXCEPT ![bi] = "raised"]
    /\ pending' = pending
    /\ pc' = "loop"
    /\ UNCHANGED <<stdout, remote, loads, prev>>
    /\ UNCHANGED <<batch_size, bucket, clients, listCalls, objects, batches, bi,
                   si, max_workers, pools, poolOpen, tasks, arrival, gatherExc,
                   all_docs, result, error>>

\* run_until_complete(gather(...)) raises the exception of gather's future;
\* it propagates out of _load_batch and out of the for loop
GatherRaise ==
    /\ pc = "gather"
    /\ GatherFailed
    /\ calls' = [calls EXCEPT ![bi] = "raised"]
    /\ pending' = gatherExc
    /\ pc' = "exit"
    /\ UNCHANGED <<stdout, remote, loads, prev>>
    /\ UNCHANGED <<batch_size, bucket, clients, listCalls, objects, batches, bi,
                   si, max_workers, pools, poolOpen, tasks, arrival, gatherExc,
                   all_docs, result, error>>

\* faulty variant: shutdown(wait=False)
PoolNoWait == TRUE

\* faulty variant: shutdown(wait=True, cancel_futures=True) drops the queue
PoolQueueDropped == Busy = {}

\* ThreadPoolExecutor.__exit__: shutdown(wait=True) joins the worker threads,
\* which first drain the work queue; then return all_docs, or the exception
\* continues to the caller of load()
PoolIdle == Busy = {} /\ Queued = {}

ExitPool ==
    /\ pc = "exit"
    /\ PoolIdle
    /\ poolOpen' = FALSE
    /\ IF pending = NoErr
       THEN pc' = "returned" /\ result' = all_docs /\ error' = error
       ELSE pc' = "raised" /\ error' = pending /\ result' = result
    /\ UNCHANGED <<stdout, remote, loads, prev>>
    /\ UNCHANGED <<batch_size, bucket, clients, listCalls, objects, batches, bi,
                   si, max_workers, pools, tasks, arrival, calls, gatherExc,
                   pending, all_docs>>

\* -------------------------------------------------------- worker threads
\* faulty variant: once shutdown has begun the workers take no more items,
\* yet shutdown waits for the queue
CanStartUntilShutdown(t) ==
    /\ poolOpen
    /\ pc # "exit"
    /\ tasks[t].st = "queued"
    /\ \A u \in Queued : t <= u
    /\ Cardinality(Busy) < max_workers

\* a worker thread takes the oldest work item of the queue; the executor
\* has at most max_workers threads
CanStart(t) ==
    /\ poolOpen
    /\ tasks[t].st = "queued"
    /\ \A u \in Queued : t <= u
    /\ Cardinality(Busy) < max_workers

Start(t) ==
    /\ CanStart(t)
    /\ tasks' = [tasks EXCEPT ![t].st = "running"]
    /\ stdout' = Printed(t)
    /\ UNCHANGED <<remote, loads, prev>>
    /\ UNCHANGED <<pc, batch_size, bucket, clients, listCalls, objects, batches,
                   bi, si, max_workers, pools, poolOpen, arrival, calls,
                   gatherExc, pending, all_docs, result, error>>

\* _load_single_file returns loader.load(): n documents
FetchOk(t, n) ==
    /\ tasks[t].st = "running"
    /\ Gives(tasks[t].key, n)
    /\ remote' = remote \cup { <<tasks[t].key, n>> }
    /\ tasks' = [tasks EXCEPT ![t].st = "ok",
                              ![t].docs = LoaderDocs(tasks[t].key, n)]
    /\ arrival' = Append(arrival, t)
    /\ UNCHANGED <<stdout, loads, prev>>
    /\ UNCHANGED <<pc, batch_size, bucket, clients, listCalls, objects, batches,
                   bi, si, max_workers, pools, poolOpen, calls, gatherExc,
                   pending, all_docs, result, error>>

\* _load_single_file raises: the future gets the exception
FetchFail(t) ==
    /\ tasks[t].st = "running"
    /\ Gives(tasks[t].key, Raises)
    /\ remote' = remote \cup { <<tasks[t].key, Raises>> }
    /\ tasks' = [tasks EXCEPT ![t].st = "failed",
                              ![t].err = FetchErr(tasks[t].key)]
    /\ arrival' = Append(arrival, t)
    /\ gatherExc' = OnChildException(FetchErr(tasks[t].key))
    /\ UNCHANGED <<stdout, loads, prev>>
    /\ UNCHANGED <<pc, batch_size, bucket, clients, listCalls, objects, batches,
                   bi, si, max_workers, pools, poolOpen, calls, pending,
                   all_docs, result, error>>

\* the fetch never completes (there is no timeout)
FetchHang(t) ==
    /\ tasks[t].st = "running"
    /\ \A r \in remote : r[1] # tasks[t].key
    /\ tasks' = [tasks EXCEPT ![t].st = "hung"]
    /\ UNCHANGED <<stdout, remote, loads, prev>>
    /\ UNCHANGED <<pc, batch_size, bucket, clients, listCalls, objects, batches,
                   bi, si, max_workers, pools, poolOpen, arrival, calls,
                   gatherExc, pending, all_docs, result, error>>

Worker ==
    \E t \in TaskIds :
        \/ Start(t)
        \/ \E n \in DocCounts : FetchOk(t, n)
        \/ FetchFail(t)
        \/ FetchHang(t)

Next ==
    \/ Construct
    \/ Connect
    \/ ListObjects
    \/ MakeBatches
    \/ CreatePool
    \/ BeginBatch
    \/ EndLoop
    \/ Submit
    \/ GatherReturn
    \/ GatherRaise
    \/ ExitPool
    \/ Worker

Spec == Init /\ [][Next]_vars

\* the steps of the thread that constructs the loader and calls load()
Caller ==
    \/ Construct
    \/ Connect
    \/ ListObjects
    \/ MakeBatches
    \/ CreatePool
    \/ BeginBatch
    \/ EndLoop
    \/ Submit
    \/ GatherReturn
    \/ GatherRaise
    \/ ExitPool

\* listings one object shorter than the longest
InitShort == Init /\ Len(bucket) < MaxObjects

\* The caller's thread and the worker threads are scheduled by the operating
\* system: a thread that can take a step eventually takes one.
SpecFair == InitShort /\ [][Next]_vars /\ WF_vars(Caller) /\ WF_vars(Worker)

\* ------------------------------------------------------ a second load()
\* The caller calls load() again on the same loader, once the first call has
\* returned or raised. The work items, the gather future and the outcome of
\* the first call are gone with its frame; objects, batches, all_docs and
\* max_workers are the locals of the new frame, unassigned until the
\* statements of load() assign them.
CallAgain ==
    /\ pc \in {"returned", "raised"}
    /\ loads = 1
    /\ prev' = [pc |-> pc, result |-> result, error |-> error]
    /\ pc' = "ready"
    /\ tasks' = <<>>
    /\ arrival' = <<>>
    /\ calls' = <<>>
    /\ bi' = 0
    /\ si' = 0
    /\ gatherExc' = NoErr
    /\ pending' = NoErr
    /\ result' = <<>>
    /\ error' = NoErr
    /\ UNCHANGED <<batch_size, bucket, clients, listCalls, objects, batches,
                   max_workers, pools, poolOpen, all_docs, stdout, remote,
                   loads>>

NextTwice == Next \/ CallAgain

\* two calls are explored on the shorter listings
SpecTwice == InitShort /\ [][NextTwice]_vars

\* ================================================================ claims
Terminal == pc \in {"ctor_failed", "returned", "raised"}
Failed == { t \in TaskIds : tasks[t].st = "failed" }
InFlight == Queued \cup Busy

\* position of task t in the completion order
ArrivalPos(t) == CHOOSE i \in 1..Len(arrival) : arrival[i] = t

\* the documents the fetch of key k returned
FetchedDocs(k) == tasks[CHOOSE t \in TaskIds : tasks[t].key = k].docs

\* C1: a successful load() returns the concatenation, over the filtered keys
\* in enumeration order, of the documents each key's fetch returned, whatever
\* the order in which the fetches completed.
C1_OrderIndependent ==
    pc = "returned" =>
        /\ \A i \in 1..Len(objects) : \E t \in TaskIds : tasks[t].key = objects[i]
        /\ result = Flatten([i \in 1..Len(objects) |-> FetchedDocs(objects[i])])

\* two batches, fetches completed out of submission order, a key with several
\* documents
C1_Witness ==
    /\ pc = "returned"
    /\ Len(calls) >= 2
    /\ \E i, j \in 1..Len(arrival) : i < j /\ arrival[i] > arrival[j]
    /\ \E t \in TaskIds : Len(tasks[t].docs) >= 2

\* C2: once a fetch has raised, load() returns no documents: it does not
\* return, and when it ends it ends by raising a fetch error.
C2_NoPartialResult ==
    Failed # {} =>
        /\ pc # "returned"
        /\ result = <<>>
        /\ Terminal => pc = "raised" /\ error.kind = "fetch"

\* load() has raised although an earlier batch had delivered documents
C2_Witness ==
    /\ pc = "raised"
    /\ Len(calls) >= 2
    /\ all_docs # <<>>
    /\ \E t \in TasksOf(bi) : tasks[t].st = "ok" /\ tasks[t].docs # <<>>
    /\ result = <<>>

C4_InvalidBatchSize ==
    batch_size <= 0 =>
        /\ pc \in {"new", "ctor_failed"}
        /\ pc = "ctor_failed" => error = CtorErr
        /\ clients = 0
        /\ listCalls = 0
        /\ pools = 0
        /\ tasks = <<>>

C4_Witness == pc = "ctor_failed" /\ batch_size = 0 /\ bucket # <<>>

\* position in the listing of the object with key k
ListingPos(k) == CHOOSE j \in 1..Len(bucket) : bucket[j].key = k

Qualifies(o) == o.size > 0 /\ o.key[Len(o.key)] # "/"

Listed == pc \notin {"new", "ctor_failed", "ready", "connected"}

\* C5: the key list is exactly the listed objects of size > 0 whose key does
\* not end in "/", in listing order; only keys of this list are fetched.
C5_FilteredKeys ==
    Listed =>
        /\ \A i \in 1..Len(objects) :
              \E j \in 1..Len(bucket) :
                  bucket[j].key = objects[i] /\ Qualifies(bucket[j])
        /\ \A j \in 1..Len(bucket) :
              Qualifies(bucket[j]) =>
                  \E i \in 1..Len(objects) : objects[i] = bucket[j].key
        /\ \A i, k \in 1..Len(objects) :
              i < k => ListingPos(objects[i]) < ListingPos(objects[k])
        /\ \A t \in TaskIds : \E i \in 1..Len(objects) : objects[i] = tasks[t].key

\* a listing with an empty object, a non-empty directory marker and a kept
\* key that has the separator inside
C5_Witness ==
    /\ pc = "returned"
    /\ Len(objects) >= 2
    /\ \E j \in 1..Len(bucket) : bucket[j].size = 0 /\ ~EndsWith(bucket[j].key, <<"/">>)
    /\ \E j \in 1..Len(bucket) : bucket[j].size > 0 /\ EndsWith(bucket[j].key, <<"/">>)
    /\ \E i \in 1..Len(objects) : \E c \in 1..Len(objects[i]) : objects[i][c] = "/"
    /\ Len(tasks) = Len(objects)

Partitioned == pc = "partitioned" \/ pools > 0

\* the keys submitted for batch b, in submission order
SubmittedKeys(b) ==
    LET ids == SubmitOrder(b) IN [i \in 1..Len(ids) |-> tasks[ids[i]].key]

\* C6: N keys and batch_size B give ceil(N/B) batches; all but the last have
\* B keys, the last has 1..B; concatenated they are the key list; and each
\* batch call submits exactly the keys of its batch.
C6_Partition ==
    Partitioned =>
        LET N == Len(objects)
            B == batch_size
            M == Len(batches)
        IN  /\ M = (N + B - 1) \div B
            /\ \A k \in 1..(M - 1) : Len(batches[k]) = B
            /\ M > 0 => Len(batches[M]) \in 1..B
            /\ N = 0 => batches = <<>>
            /\ Flatten(batches) = objects
            /\ \A j \in 1..Len(calls) :
                  calls[j] = "returned" => SubmittedKeys(j) = batches[j]

\* [k1, k2, k3] with batch_size 2
C6_Witness ==
    /\ pc = "returned"
    /\ batch_size = 2
    /\ Len(objects) = 3
    /\ Len(batches) = 2
    /\ Len(batches[1]) = 2
    /\ Len(batches[2]) = 1

\* C7: all queued or running fetches belong to one batch, and a fetch of a
\* batch exists only when the calls for all earlier batches have returned.
C7_BatchesNeverOverlap ==
    /\ \A t, u \in InFlight : tasks[t].batch = tasks[u].batch
    /\ \A t \in TaskIds :
          \A j \in 1..(tasks[t].batch - 1) :
              /\ calls[j] = "returned"
              /\ \A u \in TasksOf(j) : tasks[u].st = "ok"

\* two fetches of the second batch running
C7_Witness ==
    /\ bi = 2
    /\ Cardinality({ t \in TasksOf(2) : tasks[t].st = "running" }) >= 2
    /\ Cardinality(TasksOf(1)) >= 2

\* C8: a batch call has returned only if every fetch of the batch completed
\* successfully, has raised only if one failed, and is still waiting while a
\* fetch hangs and none has failed.
C8_Barrier ==
    \A j \in 1..Len(calls) :
        /\ calls[j] = "returned" =>
              /\ Cardinality(TasksOf(j)) = Len(batches[j])
              /\ \A t \in TasksOf(j) : tasks[t].st = "ok"
        /\ calls[j] = "raised" => \E t \in TasksOf(j) : tasks[t].st = "failed"
        /\ ( /\ \E t \in TasksOf(j) : tasks[t].st = "hung"
             /\ \A t \in TasksOf(j) : tasks[t].st # "failed" )
              => calls[j] = "active"

\* one fetch hangs, its siblings are done, the call still waits
C8_Witness ==
    /\ pc = "gather"
    /\ Cardinality(TasksOf(bi)) >= 3
    /\ \E t \in TasksOf(bi) :
          /\ tasks[t].st = "hung"
          /\ \A u \in TasksOf(bi) \ {t} : tasks[u].st = "ok"

\* C9 as stated: an executor per batch call, that is, no executor serves the
\* tasks of two batches and the executor is gone when a batch call has ended.
C9_PoolPerBatch ==
    /\ \A t, u \in TaskIds :
          tasks[t].pool = tasks[u].pool => tasks[t].batch = tasks[u].batch
    /\ \A j \in 1..Len(calls) : calls[j] = "returned" => ~poolOpen

\* C9 amended: one executor per load() call: created before the first batch
\* call, used by every batch call, shut down when load() ends; at no time
\* does it hold queued or running tasks of two batches.
C9_PoolPerLoad ==
    /\ pools <= 1
    /\ \A t \in TaskIds : tasks[t].pool = 1
    /\ poolOpen <=> pc \in {"loop", "submit", "gather", "exit"}
    /\ \A j \in 1..Len(calls) : calls[j] = "active" => poolOpen
    /\ Terminal => InFlight = {}
    /\ \A t, u \in InFlight : tasks[t].batch = tasks[u].batch

\* the executor that served the first batch runs a task of the second
C9_Witness ==
    /\ Len(calls) = 2
    /\ poolOpen
    /\ \E t \in TasksOf(1), u \in TasksOf(2) :
          /\ tasks[t].pool = tasks[u].pool
          /\ tasks[t].st = "ok"
          /\ tasks[u].st = "running"

\* C10 as stated: every error a fetch raised is the error load() raises.
C10_EveryErrorSurfaces ==
    pc = "raised" => \A t \in Failed : error = tasks[t].err

\* C10 amended: load() raises, unchanged, the error of the fetch of the
\* failing batch that was first to fail; the errors of fetches of that batch
\* that fail later are dropped.
C10_FirstErrorSurfaces ==
    pc = "raised" =>
        \E t \in Failed :
            /\ error = FetchErr(tasks[t].key)
            /\ error = tasks[t].err
            /\ tasks[t].batch = bi
            /\ \A u \in Failed : ArrivalPos(t) <= ArrivalPos(u)

\* two fetches of the batch failed; the error raised is that of the key
\* submitted later, which failed first
C10_Witness ==
    /\ pc = "raised"
    /\ \E t, u \in Failed :
          /\ u < t
          /\ ArrivalPos(t) < ArrivalPos(u)
          /\ error = tasks[t].err
          /\ error # tasks[u].err

\* C11: a second load() on the same loader and an unchanged prefix makes a
\* full cycle of its own (client, listing, executor, one fetch per key) and
\* ends as the first did: the same documents in the same order, or raising
\* again if the first raised.
C11_Stateless ==
    (loads = 2 /\ pc \in {"returned", "raised"}) =>
        /\ prev.pc = "returned" => pc = "returned" /\ result = prev.result
        /\ prev.pc = "raised" => pc = "raised" /\ error.kind = "fetch"
        /\ clients = 2
        /\ listCalls = 2
        /\ pools = 2
        /\ objects = FilterKeys(bucket)
        /\ pc = "returned" =>
              \A i \in 1..Len(objects) :
                  Cardinality({ t \in TaskIds : tasks[t].key = objects[i] }) = 1

\* the second call has returned several documents from two batches, with
\* fetches completed out of submission order
C11_Witness ==
    /\ loads = 2
    /\ pc = "returned"
    /\ prev.pc = "returned"
    /\ Len(result) >= 3
    /\ Len(calls) = 2
    /\ \E i, j \in 1..Len(arrival) : i < j /\ arrival[i] > arrival[j]

Started == { t \in TaskIds : tasks[t].st # "queued" }

\* C12: the printed lines are exactly one "loading bucket/key" line per
\* fetch that has started, there from the moment the fetch runs; a key whose
\* task has not started (queued, or never submitted) has no line.
C12_ProgressLines ==
    /\ Len(stdout) = Cardinality(Started)
    /\ \A t \in Started :
          Cardinality({ i \in 1..Len(stdout) : stdout[i] = Line(tasks[t].key) }) = 1
    /\ \A i \in 1..Len(stdout) :
          \E t \in Started : stdout[i] = Line(tasks[t].key)

\* load() has raised in its first batch: the keys of the later batch have
\* no line, a key still running when its sibling failed has one
C12_Witness ==
    /\ pc = "raised"
    /\ Len(stdout) >= 2
    /\ Len(stdout) < Len(objects)
    /\ \E i \in 1..Len(objects) :
          \A j \in 1..Len(stdout) : stdout[j] # Line(objects[i])

\* C13: when load() has returned or raised, no fetch is queued or running
\* and the executor is shut down; it has raised only after every fetch
\* submitted for the failing batch has completed; with a hung fetch it
\* neither returns nor raises.
C13_QuiescentExit ==
    /\ pc \in {"returned", "raised"} => InFlight = {} /\ ~poolOpen
    /\ pc = "raised" =>
          /\ Cardinality(TasksOf(bi)) = Len(batches[bi])
          /\ \A t \in TasksOf(bi) : tasks[t].st \in {"ok", "failed"}
    /\ (\E t \in TaskIds : tasks[t].st = "hung") => pc \notin {"returned", "raised"}

\* load() has raised; a sibling of the failed fetch completed after it
C13_Witness ==
    /\ pc = "raised"
    /\ \E t, u \in TasksOf(bi) :
          /\ tasks[t].st = "failed"
          /\ tasks[u].st = "ok"
          /\ ArrivalPos(t) < ArrivalPos(u)

\* the keys of batches 1..j
RECURSIVE KeysUpTo(_)
KeysUpTo(j) ==
    IF j = 0 THEN {}
    ELSE KeysUpTo(j - 1) \cup { batches[j][i] : i \in 1..Len(batches[j]) }

\* C14: once the call for batch j has raised it is the last batch call: every
\* fetch submitted or started is for a key of batches 1..j, and j is the
\* only batch with a failed fetch.
C14_NoLaterBatch ==
    \A j \in 1..Len(calls) :
        calls[j] = "raised" =>
            /\ Len(calls) = j
            /\ bi = j
            /\ \A t \in TaskIds : tasks[t].batch <= j /\ tasks[t].key \in KeysUpTo(j)
            /\ \A i \in 1..Len(stdout) : \E k \in KeysUpTo(j) : stdout[i] = Line(k)
            /\ \A t \in Failed : tasks[t].batch = j

\* load() has raised in the first of several batches
C14_Witness ==
    /\ pc = "raised"
    /\ bi = 1
    /\ Len(batches) >= 2
    /\ Len(batches[1]) >= 2
    /\ Len(tasks) = Len(batches[1])

\* C15: when load() has returned, every key of the key list was submitted,
\* started and completed exactly once.
C15_ExactlyOnce ==
    pc = "returned" =>
        /\ Len(tasks) = Len(objects)
        /\ \A i \in 1..Len(objects) :
              /\ Cardinality({ t \in TaskIds : tasks[t].key = objects[i] }) = 1
              /\ Cardinality({ j \in 1..Len(stdout) : stdout[j] = Line(objects[i]) }) = 1
        /\ \A t \in TaskIds :
              /\ tasks[t].st = "ok"
              /\ Cardinality({ i \in 1..Len(arrival) : arrival[i] = t }) = 1

\* four keys in batches of three, completed out of order
C15_Witness ==
    /\ pc = "returned"
    /\ Len(objects) = 4
    /\ batch_size = 3
    /\ arrival[1] = 3

C17_ErrorOfFirstFailingBatch ==
    pc = "raised" =>
        /\ error.kind = "fetch"
        /\ \E i \in 1..Len(batches[bi]) : batches[bi][i] = error.key
        /\ <<error.key, Raises>> \in remote
        /\ \A j \in 1..(bi - 1) :
              \A i \in 1..Len(batches[j]) : <<batches[j][i], Raises>> \notin remote

\* two calls on the same loader and the same prefix have raised different
\* errors
C17_Witness ==
    /\ loads = 2
    /\ pc = "raised"
    /\ prev.pc = "raised"
    /\ prev.error.kind = "fetch"
    /\ error.kind = "fetch"
    /\ prev.error # error

AnyHung == \E t \in TaskIds : tasks[t].st = "hung"

====
